---- MODULE Spec2Model ----
(***************************************************************************)
(* CoverFlow desktop shell, src-tauri/src/main.rs: the launch-time hand-off *)
(* of a ".cfj" document path from the process arguments to the webview.    *)
(*                                                                         *)
(*   setup closure (main.rs 17-26)        scans std::env::args() and pushes *)
(*                                        the first match onto PendingOpen  *)
(*   on_page_load closure (main.rs 27-40) locks PendingOpen, drains it and  *)
(*                                        window.eval()s one script a path  *)
(*                                                                         *)
(* Strings are sequences of one-character strings, so that to_lowercase,   *)
(* ends_with and serde_json::to_string are computed character by character.*)
(* Every element of the Vec carries a ghost identity (id), its position in *)
(* the history of pushes, so that two equal strings stay distinguishable.  *)
(***************************************************************************)
EXTENDS Integers, Sequences, FiniteSets, TLC

\* ------------------------------------------------------------------ bounds
\* Number of page-load events (invocations of the on_page_load closure).
MaxLoads == 2
\* Longest argument list std::env::args() yields.
MaxArgs == 2
\* Longest content of the Vec at the start of SpecChannel.
MaxQueue == 2

\* ----------------------------------------------------------------- strings
Upper == <<"A","B","C","D","E","F","G","H","I","J","K","L","M",
           "N","O","P","Q","R","S","T","U","V","W","X","Y","Z">>
Lower == <<"a","b","c","d","e","f","g","h","i","j","k","l","m",
           "n","o","p","q","r","s","t","u","v","w","x","y","z">>

\* char::to_lowercase on the characters the model uses (ASCII letters map to
\* their lower-case form, every other character to itself).
LowerChar(c) ==
  IF \E i \in 1..Len(Upper) : Upper[i] = c
  THEN Lower[CHOOSE i \in 1..Len(Upper) : Upper[i] = c]
  ELSE c

\* str::to_lowercase (main.rs 19).
ToLowercase(s) == [i \in 1..Len(s) |-> LowerChar(s[i])]

\* The fixed extension marker ".cfj" (main.rs 19).
Marker == <<".", "c", "f", "j">>

\* str::ends_with (main.rs 19).
EndsWith(s, suffix) ==
  /\ Len(s) >= Len(suffix)
  /\ SubSeq(s, Len(s) - Len(suffix) + 1, Len(s)) = suffix

\* The closure given to find: |arg| arg.to_lowercase().ends_with(".cfj").
IsCfj(arg) == EndsWith(ToLowercase(arg), Marker)

\* Option<&String>.
None == [some |-> FALSE, val |-> <<>>]
Some(s) == [some |-> TRUE, val |-> s]

\* A plausible slip: the last match wins (rfind / rev().find()).
RECURSIVE FindLast(_, _)
FindLast(as, i) ==
  IF i > Len(as) THEN None
  ELSE IF IsCfj(as[Len(as) + 1 - i]) THEN Some(as[Len(as) + 1 - i])
  ELSE FindLast(as, i + 1)

\* Iterator::find from position i on: the first element the closure accepts.
RECURSIVE FindFrom(_, _)
FindFrom(as, i) ==
  IF i > Len(as) THEN None
  ELSE IF IsCfj(as[i]) THEN Some(as[i])
  ELSE FindFrom(as, i + 1)

\* The scan with that slip.
ScanLast(as) == FindLast(as, 1)

\* args.iter().find(|arg| arg.to_lowercase().ends_with(".cfj")) (main.rs 19).
Scan(as) == FindFrom(as, 1)

\* serde_json's escaping of one character inside a string literal.
EscapeChar(c) ==
  IF c = "\"" \/ c = "\\" THEN <<"\\", c>> ELSE <<c>>

RECURSIVE Escape(_)
Escape(s) == IF s = <<>> THEN <<>> ELSE EscapeChar(Head(s)) \o Escape(Tail(s))

\* The script built by format! (main.rs 32-35): the buffer it appends to and
\* the literal standing in the place of {}.
Script(encoded) == [buffer |-> "__CFJ_PENDING__", literal |-> encoded]

\* The character a JavaScript escape sequence \c stands for.
JsEscaped(c) == IF c = "n" THEN "\n" ELSE IF c = "t" THEN "\t" ELSE c

\* The webview reading a string literal from position i on, acc being the
\* characters read so far: the literal ends at the first quote that is not
\* escaped, and is well formed only if that quote is its last character.
RECURSIVE ReadLiteral(_, _, _)
ReadLiteral(lit, i, acc) ==
  IF i > Len(lit) THEN [ok |-> FALSE, val |-> acc]
  ELSE IF lit[i] = "\"" THEN [ok |-> i = Len(lit), val |-> acc]
  ELSE IF lit[i] = "\\"
       THEN IF i + 1 > Len(lit) THEN [ok |-> FALSE, val |-> acc]
            ELSE ReadLiteral(lit, i + 2, Append(acc, JsEscaped(lit[i + 1])))
  ELSE ReadLiteral(lit, i + 1, Append(acc, lit[i]))

\* The literal of a script as the webview parses it: whether it is a well
\* formed string literal, and its value.
JsLiteralValue(lit) ==
  IF lit # <<>> /\ lit[1] = "\"" THEN ReadLiteral(lit, 2, <<>>)
  ELSE [ok |-> FALSE, val |-> <<>>]

\* The argument strings the model draws from.
ArgStrings ==
  { <<"r",".","c","f","j">>,            \* r.cfj    match
    <<"R",".","C","F","J">>,            \* R.CFJ    match, upper case
    <<"\"",".","C","f","j">>,           \* ".Cfj    match, mixed case, a quote
    <<"\\","n",".","c","f","j">>,       \* \n.cfj   match, a backslash
    <<"c","f","j">>,                    \* cfj      no match (short, no dot)
    <<".","c","f","j","x">> }           \* .cfjx    no match (marker inside)

RECURSIVE SeqsUpTo(_, _)
SeqsUpTo(S, n) ==
  IF n = 0 THEN { <<>> }
  ELSE LET shorter == SeqsUpTo(S, n - 1)
       IN shorter \cup { Append(q, x) : q \in { r \in shorter : Len(r) = n - 1 }, x \in S }

\* std::env::args().collect() (main.rs 18): any list of at most MaxArgs.
ArgLists == SeqsUpTo(ArgStrings, MaxArgs)

\* The strings a Vec that is not empty at the start holds (SpecChannel).
QueueStrings == { <<"r",".","c","f","j">>, <<"\"",".","C","f","j">> }


\* ------------------------------------------------------------------- state
\* The tauri page-load payload the closure receives and ignores (the `_`
\* parameter, main.rs 27): the handler runs for either kind of event.
PageLoadEvents == {"Started", "Finished"}

\* One invocation of the on_page_load closure per page-load event.
Handlers == 1..MaxLoads

\* Holders of the Mutex.
NoHolder == <<"free", 0>>
SetupHolder == <<"setup", 0>>
HandlerHolder(h) == <<"handler", h>>

\* An element of the Vec: the String, and its ghost identity.
Entry(n, s) == [id |-> n, path |-> s]
NoEntry == Entry(0, <<>>)

VARIABLES
  args,      \* std::env::args(), fixed for the process
  found,     \* the Option the scan produced (None before the scan)
  pcSetup,   \* position of the setup closure: start, lock, push, done
  setupRet,  \* what the setup closure returned: "none" until it returns
  pending,   \* the Vec<String> inside the Mutex
  poisoned,  \* the poison flag of the Mutex
  lock,      \* the holder of the Mutex
  pc,        \* position of each handler: idle, lock, loop, eval, done
  locked,    \* the Result of each handler's lock(): none, Ok, Err
  batch,     \* what each handler's Drain iterator has still to yield
  cur,       \* the path each handler's loop body is working on
  seen,      \* ghost: what each handler found in the Vec when it locked it
  evals,     \* ghost: the window.eval calls made so far, in order
  ui,        \* window.__CFJ_PENDING__ in the webview
  pushed,    \* ghost: every element ever put in the Vec, in order
  loaded,    \* ghost: a Finished page-load event has occurred
  outcomes,  \* ghost: the Result of each window.eval call that has returned
  unencodable, \* the strings serde_json::to_string answers Err for
  diag       \* the diagnostics the process has written (log, stderr)

vars == <<args, found, pcSetup, setupRet, pending, poisoned, lock, pc, locked,
          batch, cur, seen, evals, ui, pushed, loaded, outcomes, unencodable,
          diag>>

setupVars == <<args, found, pcSetup, setupRet>>
handlerVars == <<pc, locked, batch, cur, seen>>
webviewVars == <<evals, ui, outcomes>>
\* What no line of main.rs writes: the encoder's behaviour, and diagnostics
\* (main.rs holds no log, print or eprintln call).
quietVars == <<unencodable, diag>>

\* A slip: the path is put between quotes as it is (format!("\"{}\"", path)).
ToJsonStringRaw(s) ==
  [ok |-> s \notin unencodable, val |-> <<"\"">> \o s \o <<"\"">>]

\* serde_json::to_string(&path) (main.rs 31): a Result; on Ok a quoted
\* literal with quote and backslash escaped. A String always encodes: the
\* set of strings answered with Err is empty in the process main.rs builds.
ToJsonString(s) ==
  [ok |-> s \notin unencodable, val |-> <<"\"">> \o Escape(s) \o <<"\"">>]

\* ------------------------------------------------- the Mutex and the Vec
\* A slip: no mutual exclusion (the Vec reached without the lock).
CanLockAlways(l) == TRUE

\* Mutex::lock blocks until no one holds the lock (main.rs 21, 29).
CanLock(l) == l = NoHolder

\* A slip: a poisoned lock is recovered (into_inner) instead of skipped.
LockResultRecover(p) == "Ok"

\* The Result of Mutex::lock: Err exactly when the lock is poisoned; the
\* `if let Ok(..)` of main.rs 21 and 29 skips its body on Err.
LockResult(p) == IF p THEN "Err" ELSE "Ok"

\* A slip: the path is pushed a second time.
PushTwice(q, e) == Append(Append(q, e), e)

\* Vec::push (main.rs 22).
Push(q, e) == Append(q, e)

\* A slip: drain(1..), the first element is left out of the drain.
DrainSkipFirst(q) == IF q = <<>> THEN <<>> ELSE Tail(q)

\* A slip: a reload with nothing queued delivers the last path once more.
DrainRedeliver(q) ==
  IF q = <<>> /\ evals # <<>> THEN <<evals[Len(evals)].entry>> ELSE q

\* What pending.drain(..) yields (main.rs 30): every element, front to back.
DrainAll(q) == q

\* A slip: the Vec is iterated (iter().cloned()) and not emptied.
VecKept(q) == q

\* What pending.drain(..) leaves in the Vec (main.rs 30): nothing.
VecAfterDrain(q) == <<>>

\* A slip: a delivery the webview refused is put back to be tried again.
LeftAfterEvalRetry(b, e, ok) == IF ok THEN b ELSE <<e>> \o b

\* `let _ = window.eval(&script)` (main.rs 36): the Result is discarded and
\* the loop goes on with what the Drain has still to yield.
LeftAfterEval(b, e, ok) == b

\* A slip: a path that does not encode ends the loop (break, or `?`).
LeftAfterEncodeErrBreak(b) == <<>>

\* The `if let Ok(encoded)` of main.rs 31 has no else: after a path that
\* does not encode the loop goes on with what the Drain has still to yield.
LeftAfterEncodeErr(b) == b

\* A slip: the guard is leaked (mem::forget) and the lock stays held.
UnlockLeak(l) == l

\* The MutexGuard is dropped (main.rs 23, 39): the lock is free again.
Unlock(l) == NoHolder

\* A slip: the loop takes the paths from the back (pop()).
LastPath(b) == b[Len(b)]

\* Iterator::next of the Drain (main.rs 30): the front element.
NextPath(b) == Head(b)

\* The window.__CFJ_PENDING__ the webview starts with: undefined.
NoBuffer == [defined |-> FALSE, items |-> <<>>]

\* A slip: the buffer is assigned a fresh array at every delivery.
RunScriptFresh(buffer, script) ==
  [defined |-> TRUE, items |-> <<JsLiteralValue(script.literal).val>>]

\* The webview running the script (main.rs 33): the buffer is created empty
\* only when absent, then the literal's value is pushed at its tail. A
\* script that does not parse runs no statement at all.
RunScript(buffer, script) ==
  IF JsLiteralValue(script.literal).ok
  THEN [defined |-> TRUE,
        items |-> Append(IF buffer.defined THEN buffer.items ELSE <<>>,
                         JsLiteralValue(script.literal).val)]
  ELSE buffer

\* ------------------------------------------------------------------- Init
\* What both specifications start from: nothing scanned, no closure running.
InitRest ==
  /\ found = None
  /\ pcSetup = "start"
  /\ setupRet = "none"
  /\ lock = NoHolder
  /\ pc = [h \in Handlers |-> "idle"]
  /\ locked = [h \in Handlers |-> "none"]
  /\ batch = [h \in Handlers |-> <<>>]
  /\ cur = [h \in Handlers |-> NoEntry]
  /\ seen = [h \in Handlers |-> <<>>]
  /\ evals = <<>>
  /\ ui = NoBuffer
  /\ loaded = FALSE
  /\ outcomes = <<>>
  /\ diag = <<>>

\* The process after PendingOpen(Arc::new(Mutex::new(Vec::new()))) (main.rs
\* 10): an empty Vec behind a lock that is free and not poisoned.
Init ==
  /\ args \in ArgLists
  /\ pending = <<>>
  /\ pushed = <<>>
  /\ poisoned = FALSE
  /\ unencodable = {}
  /\ InitRest

\* The contents a Vec may have: strings tagged with their push position.
Tagged(q) == [i \in 1..Len(q) |-> Entry(i, q[i])]

\* The argument lists of SpecChannel: none, no match, a match in second place.
ChannelArgLists ==
  { <<>>,
    << <<"c","f","j">> >>,
    << <<"c","f","j">>, <<"R",".","C","F","J">> >> }

\* The two closures as operations on any state of the managed
\* Mutex<Vec<String>>: any contents up to MaxQueue, poisoned or not.
InitChannel ==
  /\ args \in ChannelArgLists
  /\ pending \in { Tagged(q) : q \in SeqsUpTo(QueueStrings, MaxQueue) }
  /\ pushed = pending
  /\ poisoned \in BOOLEAN
  /\ unencodable = {}
  /\ InitRest

\* ------------------------------------------------------------ setup closure
\* main.rs 18-19: collect the arguments and scan them; with no match the
\* closure returns Ok(()) at once (main.rs 25).
SetupScan ==
  /\ pcSetup = "start"
  /\ found' = Scan(args)
  /\ pcSetup' = IF found'.some THEN "lock" ELSE "done"
  /\ setupRet' = IF found'.some THEN setupRet ELSE "Ok"
  /\ UNCHANGED <<args, pending, poisoned, lock, handlerVars, webviewVars, pushed, loaded,
                 quietVars>>

\* main.rs 20-21: pending_open.lock(); on Err the push is skipped and the
\* closure returns Ok(()) (main.rs 25).
SetupLock ==
  /\ pcSetup = "lock"
  /\ CanLock(lock)
  /\ IF LockResult(poisoned) = "Ok"
     THEN /\ lock' = SetupHolder
          /\ pcSetup' = "push"
          /\ UNCHANGED setupRet
     ELSE /\ pcSetup' = "done"
          /\ setupRet' = "Ok"
          /\ UNCHANGED lock
  /\ UNCHANGED <<args, found, pending, poisoned, handlerVars, webviewVars, pushed, loaded,
                 quietVars>>

\* main.rs 22-25: push the clone of the path, drop the guard, return Ok(()).
SetupPush ==
  /\ pcSetup = "push"
  /\ LET e == Entry(Len(pushed) + 1, found.val)
     IN /\ pending' = Push(pending, e)
        /\ pushed' = Append(pushed, e)
  /\ lock' = Unlock(lock)
  /\ pcSetup' = "done"
  /\ setupRet' = "Ok"
  /\ UNCHANGED <<args, found, poisoned, handlerVars, webviewVars, loaded, quietVars>>

\* ------------------------------------------------------ on_page_load closure
\* main.rs 27-28: the webview reports a page-load event and tauri calls the
\* closure; the kind of event is not looked at.
PageLoad(h, ev) ==
  /\ pc[h] = "idle"
  /\ \A k \in Handlers : k < h => pc[k] # "idle"
  /\ pc' = [pc EXCEPT ![h] = "lock"]
  /\ loaded' = (loaded \/ ev = "Finished")
  /\ UNCHANGED <<setupVars, pending, poisoned, lock, locked, batch, cur, seen,
                 webviewVars, pushed, quietVars>>

\* main.rs 29-30: pending_open.lock(); on Ok the drain empties the Vec and
\* the loop starts, the guard being held; on Err the closure returns.
HandlerLock(h) ==
  /\ pc[h] = "lock"
  /\ CanLock(lock)
  /\ locked' = [locked EXCEPT ![h] = LockResult(poisoned)]
  /\ IF LockResult(poisoned) = "Ok"
     THEN /\ lock' = HandlerHolder(h)
          /\ batch' = [batch EXCEPT ![h] = DrainAll(pending)]
          /\ seen' = [seen EXCEPT ![h] = pending]
          /\ pending' = VecAfterDrain(pending)
          /\ pc' = [pc EXCEPT ![h] = "loop"]
     ELSE /\ pc' = [pc EXCEPT ![h] = "done"]
          /\ UNCHANGED <<lock, batch, seen, pending>>
  /\ UNCHANGED <<setupVars, poisoned, cur, webviewVars, pushed, loaded, quietVars>>

\* main.rs 30-36: the loop takes the next path, encodes it, builds the
\* script and calls window.eval; a path that does not encode is skipped.
EvalCall(h) ==
  /\ pc[h] = "loop"
  /\ batch[h] # <<>>
  /\ LET e == NextPath(batch[h])
         encoded == ToJsonString(e.path)
     IN /\ IF encoded.ok
           THEN /\ batch' = [batch EXCEPT ![h] = Tail(batch[h])]
                /\ cur' = [cur EXCEPT ![h] = e]
                /\ evals' = Append(evals, [by |-> h, entry |-> e,
                                           script |-> Script(encoded.val)])
                /\ pc' = [pc EXCEPT ![h] = "eval"]
           ELSE /\ batch' = [batch EXCEPT ![h] = LeftAfterEncodeErr(Tail(batch[h]))]
                /\ UNCHANGED <<cur, evals, pc>>
  /\ UNCHANGED <<setupVars, pending, poisoned, lock, locked, seen, ui, pushed, loaded,
                 outcomes, quietVars>>

\* main.rs 36: window.eval returns; Ok when the webview ran the script, Err
\* when it did not; the Result is discarded (let _ =).
EvalReturn(h, ok) ==
  /\ pc[h] = "eval"
  /\ ui' = IF ok THEN RunScript(ui, evals[Len(evals)].script) ELSE ui
  /\ cur' = [cur EXCEPT ![h] = NoEntry]
  /\ pc' = [pc EXCEPT ![h] = "loop"]
  /\ outcomes' = Append(outcomes, IF ok THEN "Ok" ELSE "Err")
  /\ batch' = [batch EXCEPT ![h] = LeftAfterEval(batch[h], cur[h], ok)]
  /\ UNCHANGED <<setupVars, pending, poisoned, lock, locked, seen, evals,
                 pushed, loaded, quietVars>>

\* main.rs 38-40: the Drain is exhausted, the guard is dropped at the end of
\* the if-let statement and the closure returns.
HandlerExit(h) ==
  /\ pc[h] = "loop"
  /\ batch[h] = <<>>
  /\ lock' = Unlock(lock)
  /\ pc' = [pc EXCEPT ![h] = "done"]
  /\ UNCHANGED <<setupVars, pending, poisoned, locked, batch, cur, seen,
                 webviewVars, pushed, loaded, quietVars>>

Next ==
  \/ SetupScan
  \/ SetupLock
  \/ SetupPush
  \/ \E h \in Handlers, ev \in PageLoadEvents : PageLoad(h, ev)
  \/ \E h \in Handlers : HandlerLock(h)
  \/ \E h \in Handlers : EvalCall(h)
  \/ \E h \in Handlers, ok \in BOOLEAN : EvalReturn(h, ok)
  \/ \E h \in Handlers : HandlerExit(h)

\* The process as main.rs builds it.
Spec == Init /\ [][Next]_vars

\* The closures over any state of the channel.
SpecChannel == InitChannel /\ [][Next]_vars

\* The on_page_load closure over any behaviour of the Result of
\* serde_json::to_string: any set of the queued strings answered with Err.
InitEncode ==
  /\ args \in ChannelArgLists
  /\ pending \in { Tagged(q) : q \in SeqsUpTo(QueueStrings, MaxQueue) }
  /\ pushed = pending
  /\ poisoned = FALSE
  /\ unencodable \in SUBSET QueueStrings
  /\ InitRest

SpecEncode == InitEncode /\ [][Next]_vars


\* The threads keep running: a closure that can take its next step takes it.
\* Page-load events are the webview's to raise, and carry no fairness.
Fairness ==
  /\ WF_vars(SetupScan) /\ WF_vars(SetupLock) /\ WF_vars(SetupPush)
  /\ \A h \in Handlers :
       /\ WF_vars(HandlerLock(h))
       /\ WF_vars(EvalCall(h))
       /\ WF_vars(\E ok \in BOOLEAN : EvalReturn(h, ok))
       /\ WF_vars(HandlerExit(h))

\* The process as main.rs builds it, under that scheduling.
LiveSpec == Spec /\ Fairness

\* The closures over any state of the channel, under that scheduling.
LiveSpecChannel == SpecChannel /\ Fairness

\* ------------------------------------------------------------------ claims
Ids(q) == { q[i].id : i \in 1..Len(q) }
EvalIds == { evals[i].entry.id : i \in 1..Len(evals) }
IsPrefix(p, q) == Len(p) <= Len(q) /\ SubSeq(q, 1, Len(p)) = p
\* The elements handler h has passed to window.eval, in call order.
RECURSIVE EntriesBy(_, _)
EntriesBy(h, calls) ==
  IF calls = <<>> THEN <<>>
  ELSE IF Head(calls).by = h THEN <<Head(calls).entry>> \o EntriesBy(h, Tail(calls))
  ELSE EntriesBy(h, Tail(calls))

\* C1: no element pushed onto the Vec is passed to window.eval more than once,
\* whatever the number of page-load events and their interleaving with setup.
C1_AtMostOnce ==
  \A i, j \in 1..Len(evals) : evals[i].entry.id = evals[j].entry.id => i = j

\* A second handler has drained the Vec after a first one delivered.
C1_Witness ==
  /\ Len(evals) >= 2
  /\ \A h \in Handlers : pc[h] = "done" /\ locked[h] = "Ok"

\* C2: once setup has pushed its path, a page-load event that follows (a
\* handler called and about to lock) leads to a window.eval call for every
\* pushed path.
C2_EventuallyDelivered ==
  \A h \in Handlers :
    (pushed # <<>> /\ pc[h] = "lock") ~> (Ids(pushed) \subseteq EvalIds)

\* The path setup pushed has been passed to window.eval and run by the webview.
C2_Witness ==
  /\ pcSetup = "done" /\ found.some
  /\ \E i \in 1..Len(evals) : evals[i].entry.path = found.val
  /\ ui.defined

\* C3: in every state where a window.eval call is executing, the lock on the
\* pending queue is free.
C3_LockFreeDuringEval ==
  \A h \in Handlers : pc[h] = "eval" => lock = NoHolder

\* C4: setup makes no window.eval call, and no window.eval call is made
\* before the webview has signalled that its content finished loading.
C4_DeliveryOnlyWhenLoaded ==
  /\ evals # <<>> => \E h \in Handlers : pc[h] # "idle"
  /\ evals # <<>> => loaded

\* C5: the window.eval calls of one handler follow the order in which the
\* paths it found in the Vec were pushed: they are a prefix of what it found,
\* and what it found is in push order.
C5_FifoDelivery ==
  \A h \in Handlers :
    /\ IsPrefix(EntriesBy(h, evals), seen[h])
    /\ \A i, j \in 1..Len(seen[h]) : i < j => seen[h][i].id < seen[h][j].id

\* One handler has delivered two different paths, one after the other.
C5_Witness ==
  \E h \in Handlers :
    /\ Len(EntriesBy(h, evals)) >= 2
    /\ EntriesBy(h, evals)[1].path # EntriesBy(h, evals)[2].path

Count(q, e) == Cardinality({ i \in 1..Len(q) : q[i] = e })
RECURSIVE SumOver(_, _, _)
SumOver(f, S, e) ==
  IF S = {} THEN 0
  ELSE LET h == CHOOSE x \in S : TRUE IN Count(f[h], e) + SumOver(f, S \ {h}, e)
EvalEntries == [i \in 1..Len(evals) |-> evals[i].entry]

\* C6: with setup and the drains running concurrently, no pushed path is lost
\* or doubled (it is in the Vec, or in one drain, or was passed to
\* window.eval), and while a drain holds the lock every path pushed so far is
\* in that drain or was already passed to window.eval.
C6_NoLossUnderRace ==
  /\ \A i \in 1..Len(pushed) :
       Count(pending, pushed[i]) + SumOver(batch, Handlers, pushed[i])
         + Count(EvalEntries, pushed[i]) = 1
  /\ \A h \in Handlers :
       pc[h] \in {"loop", "eval"} =>
         \A i \in 1..Len(pushed) :
           Count(batch[h], pushed[i]) + Count(EvalEntries, pushed[i]) = 1

\* Setup waits for the lock while a drain holds it in the middle of a delivery.
C6_Witness ==
  /\ pcSetup = "lock"
  /\ \E h \in Handlers : pc[h] = "eval" /\ lock = HandlerHolder(h)

\* Case-insensitive match of the last four characters against ".cfj", stated
\* without to_lowercase or ends_with.
MarkerChars == << {"."}, {"c", "C"}, {"f", "F"}, {"j", "J"} >>
HasMarker(a) ==
  /\ Len(a) >= 4
  /\ \A k \in 1..4 : a[Len(a) - 4 + k] \in MarkerChars[k]
Matching(as) == { i \in 1..Len(as) : HasMarker(as[i]) }

\* C7: for every argument list the scan yields the first argument, in list
\* order, that ends with ".cfj" whatever its case, unchanged; and none
\* exactly when no argument does.
C7_ScanFirstMatch ==
  pcSetup # "start" =>
    IF Matching(args) = {}
    THEN found = None
    ELSE /\ found.some
         /\ found.val = args[CHOOSE i \in Matching(args) :
                               \A k \in Matching(args) : i <= k]

\* Two different arguments match, and the one returned is not lower case.
C7_Witness ==
  /\ pcSetup # "start"
  /\ Cardinality(Matching(args)) >= 2
  /\ \E i, k \in Matching(args) : args[i] # args[k]
  /\ found.val # ToLowercase(found.val)

\* C8: when a handler that took the lock returns, the Vec is empty, and no
\* two handlers find the same element in the Vec: a later drain holds only
\* what was pushed since the one before.
C8_PostDrainIsolation ==
  /\ [](\A g, h \in Handlers : g # h => Ids(seen[g]) \cap Ids(seen[h]) = {})
  /\ [][\A h \in Handlers :
          (pc[h] # "done" /\ pc'[h] = "done" /\ locked'[h] = "Ok")
            => pending' = <<>>]_vars

\* Two drains each found something: the later one what setup pushed between.
C8_Witness ==
  /\ \A h \in Handlers : pc[h] = "done" /\ seen[h] # <<>>
  /\ Len(evals) >= 2

\* C9: a handler that finds the Vec empty makes no window.eval call, ends
\* normally and leaves the Vec empty; what an earlier load delivered is not
\* delivered again.
C9_EmptyDrain ==
  \A h \in Handlers :
    (locked[h] = "Ok" /\ seen[h] = <<>>) =>
      /\ pc[h] \in {"loop", "done"}
      /\ batch[h] = <<>>
      /\ EntriesBy(h, evals) = <<>>
      /\ pc[h] = "loop" => pending = <<>>

\* A reload: a handler found the Vec empty after a path had been delivered.
C9_Witness ==
  /\ evals # <<>>
  /\ \E h \in Handlers : pc[h] = "done" /\ locked[h] = "Ok" /\ seen[h] = <<>>

\* C10: with the lock poisoned nothing is pushed, drained or delivered and
\* the lock is never held; setup still returns Ok and every handler returns.
C10_PoisonSkips ==
  /\ [][poisoned => pending' = pending /\ evals' = evals /\ ui' = ui
                      /\ lock' = NoHolder]_vars
  /\ [](poisoned /\ pcSetup = "done" => setupRet = "Ok")
  /\ [](poisoned => \A h \in Handlers : pc[h] \in {"idle", "lock", "done"})

\* Poisoned lock, a path waiting in the Vec: setup found a path and
\* returned, a handler ran and returned, and the Vec still holds the path.
C10_Witness ==
  /\ poisoned /\ pending # <<>>
  /\ pcSetup = "done" /\ found.some /\ setupRet = "Ok"
  /\ \E h \in Handlers : pc[h] = "done" /\ locked[h] = "Err"


\* The paths of the window.eval calls that returned Ok, in call order.
RECURSIVE OkPaths(_, _)
OkPaths(calls, results) ==
  IF calls = <<>> \/ results = <<>> THEN <<>>
  ELSE IF Head(results) = "Ok"
       THEN <<Head(calls).entry.path>> \o OkPaths(Tail(calls), Tail(results))
       ELSE OkPaths(Tail(calls), Tail(results))

\* C11: what the webview holds in window.__CFJ_PENDING__ is, character for
\* character, the start-up argument the scan found and setup pushed: one
\* item for every window.eval call that returned Ok, equal to that argument.
C11_ExactString ==
  /\ ui.items = OkPaths(evals, outcomes)
  /\ \A i \in 1..Len(ui.items) :
       /\ found.some /\ ui.items[i] = found.val
       /\ \E k \in 1..Len(args) : args[k] = ui.items[i]

\* The buffer holds a delivered argument with a backslash (which the
\* encoding escapes), after an argument that is no match.
C11_Witness ==
  /\ ui.defined /\ Len(ui.items) = 1
  /\ \E k \in 1..Len(ui.items[1]) : ui.items[1][k] = "\\"
  /\ Len(args) = 2 /\ args[2] = ui.items[1] /\ args[1] # args[2]

\* The elements of q that serde_json::to_string encodes, in order.
RECURSIVE Encodable(_)
Encodable(q) ==
  IF q = <<>> THEN <<>>
  ELSE IF Head(q).path \in unencodable THEN Encodable(Tail(q))
  ELSE <<Head(q)>> \o Encodable(Tail(q))

\* C12: a path that does not encode gets no window.eval call, and every
\* other path the same handler drained is still passed to window.eval, in
\* order: the calls of a handler that returned are exactly the encodable
\* paths it found.
C12_EncodeErrSkipsOne ==
  \A h \in Handlers :
    /\ IsPrefix(EntriesBy(h, evals), Encodable(seen[h]))
    /\ (pc[h] = "done" /\ locked[h] = "Ok") =>
         EntriesBy(h, evals) = Encodable(seen[h])

\* A handler drained two paths, the first did not encode, and the second
\* was passed to window.eval.
C12_Witness ==
  \E h \in Handlers :
    /\ pc[h] = "done" /\ Len(seen[h]) = 2
    /\ seen[h][1].path \in unencodable
    /\ EntriesBy(h, evals) = <<seen[h][2]>>


\* C13: a delivery the webview refused (window.eval returned Err) is not
\* tried again: its path is back neither in the Vec nor in a drain and has
\* no second window.eval call; and the handler still passes every other path
\* it drained to window.eval.
C13_NoRetry ==
  /\ \A i \in 1..Len(outcomes) :
       outcomes[i] = "Err" =>
         /\ \A j \in 1..Len(evals) : j # i => evals[j].entry.id # evals[i].entry.id
         /\ Count(pending, evals[i].entry) = 0
         /\ SumOver(batch, Handlers, evals[i].entry) = 0
  /\ \A h \in Handlers :
       (pc[h] = "done" /\ locked[h] = "Ok") => EntriesBy(h, evals) = seen[h]

\* A handler drained two paths, the webview refused the first and took the
\* second, and every handler has returned since.
C13_Witness ==
  /\ outcomes = <<"Err", "Ok">>
  /\ \E h \in Handlers : Len(seen[h]) = 2 /\ EntriesBy(h, evals) = seen[h]
  /\ \A h \in Handlers : pc[h] = "done"

\* C14: every failure leaves a diagnostic: a lock() that returned Err, in
\* setup or in a handler, and a window.eval that returned Err, each have
\* their entry in the diagnostics written.
C14_FailuresLogged ==
  Len(diag) >=
    Cardinality({ i \in 1..Len(outcomes) : outcomes[i] = "Err" })
    + Cardinality({ h \in Handlers : locked[h] = "Err" })
    + (IF pcSetup = "done" /\ found.some /\ poisoned THEN 1 ELSE 0)

\* C15: no interleaving of setup and the handlers deadlocks: whenever a
\* closure waits for the lock or holds it, a state follows in which every
\* closure that was called has returned (a closure never goes back to idle)
\* and the lock is free, the lock being poisoned or not.
C15_NoDeadlock ==
  (\/ pcSetup \in {"lock", "push"}
   \/ \E h \in Handlers : pc[h] \in {"lock", "loop", "eval"})
    ~> (/\ lock = NoHolder
        /\ pcSetup \notin {"lock", "push"}
        /\ pcSetup = "done" => setupRet = "Ok"
        /\ \A h \in Handlers : pc[h] \in {"idle", "done"})

\* Setup and a handler both wait for the lock while another handler holds
\* it in the middle of its loop.
C15_Witness ==
  /\ pcSetup = "lock"
  /\ \E g, h \in Handlers :
       g # h /\ pc[h] = "lock" /\ lock = HandlerHolder(g) /\ batch[g] # <<>>


C17_AppendOnly ==
  [][ui' # ui =>
       /\ ui'.defined
       /\ ~ui.defined => ui.items = <<>>
       /\ IsPrefix(ui.items, ui'.items)
       /\ ui'.items = Append(ui.items, evals[Len(evals)].entry.path)]_vars

\* The buffer holds two different delivered paths.
C17_Witness ==
  /\ ui.defined /\ Len(ui.items) = 2
  /\ ui.items[1] # ui.items[2]

\* C18: the Vec never holds more than one path, at most one path is ever
\* pushed and at most one window.eval call is ever made, whatever the
\* arguments and the page-load events; only setup's push makes the Vec
\* longer and only a handler's drain makes it shorter.
C18_AtMostOnePath ==
  /\ [](Len(pending) <= 1 /\ Len(pushed) <= 1 /\ Len(evals) <= 1)
  /\ [][/\ Len(pending') > Len(pending) =>
             pcSetup = "push" /\ pcSetup' = "done" /\ pc' = pc
        /\ Len(pending') < Len(pending) =>
             /\ UNCHANGED setupVars
             /\ \E h \in Handlers : pc[h] = "lock" /\ pc'[h] = "loop"]_vars

\* Two arguments match, every page-load handler has run and returned, and
\* one window.eval call was made.
C18_Witness ==
  /\ Cardinality(Matching(args)) >= 2
  /\ \A h \in Handlers : pc[h] = "done" /\ locked[h] = "Ok"
  /\ Len(evals) = 1 /\ Len(pushed) = 1 /\ pending = <<>>

====
